---- MODULE Spec2Model ----
(***************************************************************************)
(* Model of bot.py: the Over/Under 1.5 goals trading bot.                  *)
(*                                                                         *)
(*   - compute_stake_for_liability, safe_best_back, safe_best_lay are pure *)
(*     functions and are modelled as operators.                            *)
(*   - main_loop and the handle_match coroutines it gathers are modelled   *)
(*     as a state machine (specification Spec).                            *)
(*   - specification SpecStake applies compute_stake_for_liability to a    *)
(*     bounded set of configurations and odds.                             *)
(*                                                                         *)
(* Money is counted in thousandths of a currency unit (mills), so that a   *)
(* value with more than two decimals is representable and rounding to two  *)
(* decimals is an observable step.  Prices (odds) are counted in           *)
(* hundredths: 200 is the price 2.0.                                       *)
(***************************************************************************)
EXTENDS Integers, Sequences, FiniteSets

VARIABLES SET, mainPc, awaited, nTasks, task, h, szOdds, szStake, szPc

vars == <<SET, mainPc, awaited, nTasks, task, h, szOdds, szStake, szPc>>

\* ------------------------------------------------------------------ bounds
\* number of distinct fixture ids the live feed can report
NumFixtures == 2
\* number of handle_match coroutines main_loop creates in one run of the model
MaxTasks == 3
\* the odds grid of SpecStake runs from 1.00 to 1.00 + 0.05 * MaxOddsStep
MaxOddsStep == 40

\* ------------------------------------------------------------ Python values
\* Python None (a missing number)
NoneV == -1

Truthy(v) == v # NoneV /\ v # 0

\* dict.get(key, default) for an optional setting
Get(v, dflt) == IF v = NoneV THEN dflt ELSE v

\* ------------------------------------------------------- settings defaults
DefaultMinBackStake == 2000
DefaultMaxTestLiability == 1000
DefaultTestStake == 500
DefaultStake == 5000
DefaultMaxPrice == 5000
DefaultCashoutMinute == 71

\* ------------------------------------------------------------- stake sizer
\* a non-negative rational amount n/d (in mills), d > 0
Frac(n, d) == [n |-> n, d |-> d]

\* f < m for a fraction f and an integer m
FracLt(f, m) == f.n < m * f.d

\* min(f, m) for a fraction f and an integer m
FracMin(f, m) == IF m * f.d < f.n THEN Frac(m, 1) ELSE f

\* n/d rounded to the nearest integer, ties to the even neighbour
RoundHalfEven(n, d) ==
  LET q == n \div d
      r == n % d
  IN  IF 2 * r < d THEN q
      ELSE IF 2 * r > d THEN q + 1
      ELSE IF q % 2 = 0 THEN q ELSE q + 1

\* mutant of Round2: the value is returned without rounding to 2 decimals
Round2_unrounded(f) == f.n \div f.d

\* round(stake, 2): the nearest multiple of 0.01 (10 mills).  Python rounds
\* the binary float half-to-even; the float's representation error at an
\* exact decimal tie is not modelled.
Round2(f) == 10 * RoundHalfEven(f.n, 10 * f.d)

\* mutant of OddsUsable: the guard tests odds < 1.0 instead of odds <= 1.0
OddsUsable_strict(odds) == odds # NoneV /\ odds >= 100

\* the negation of the guard "odds is None or odds <= 1.0"
OddsUsable(odds) == odds # NoneV /\ odds > 100

LiabilityMode(S) == S.test_mode /\ S.min_liability_mode

\* the unrounded liability-target stake max_liab / (odds - 1.0)
LiabilityTarget(odds, S) ==
  Frac(100 * Get(S.max_test_liability, DefaultMaxTestLiability), odds - 100)

\* mutant of LiabilityStake: the cap is applied before the floor
LiabilityStake_capFirst(odds, S) ==
  LET min_back_stake == Get(S.min_back_stake, DefaultMinBackStake)
      raw == LiabilityTarget(odds, S)
      stake_cap == Get(S.test_stake_cap, min_back_stake)
      capped == FracMin(raw, stake_cap)
  IN  Round2(IF FracLt(capped, min_back_stake) THEN Frac(min_back_stake, 1) ELSE capped)

\* the liability-mode branch
LiabilityStake(odds, S) ==
  LET min_back_stake == Get(S.min_back_stake, DefaultMinBackStake)
      raw == LiabilityTarget(odds, S)
      floored == IF FracLt(raw, min_back_stake) THEN Frac(min_back_stake, 1) ELSE raw
      stake_cap == Get(S.test_stake_cap, min_back_stake)
  IN  Round2(FracMin(floored, stake_cap))

\* the fixed-stake branch
FixedStake(odds, S) ==
  LET min_back_stake == Get(S.min_back_stake, DefaultMinBackStake)
      stake == IF S.test_mode THEN Get(S.test_stake, DefaultTestStake)
                              ELSE Get(S.stake, DefaultStake)
  IN  IF S.max_live_liability # NoneV /\ (odds - 100) * stake > 100 * S.max_live_liability
      THEN 0
      ELSE Round2(Frac(IF stake < min_back_stake THEN min_back_stake ELSE stake, 1))

compute_stake_for_liability(odds, S) ==
  IF ~OddsUsable(odds) THEN 0
  ELSE IF LiabilityMode(S) THEN LiabilityStake(odds, S)
  ELSE FixedStake(odds, S)

\* ---------------------------------------------------------------- settings
\* SET = cfg["settings"], read once at start-up and never written
Settings(mbs, tm, mlm, mtl, cap, ts, st, mll, mp) ==
  [min_back_stake |-> mbs, test_mode |-> tm, min_liability_mode |-> mlm,
   max_test_liability |-> mtl, test_stake_cap |-> cap, test_stake |-> ts,
   stake |-> st, max_live_liability |-> mll,
   max_price |-> mp, min_minute |-> 1, max_minute |-> 80,
   cashout_minute |-> NoneV, market_check_retry |-> 2]

\* the configurations compute_stake_for_liability is applied to in SpecStake
StakeConfigs ==
  {Settings(mbs, tm, mlm, mtl, cap, ts, st, mll, NoneV) :
     mbs \in {NoneV, 0, 1000, 2004}, tm \in BOOLEAN, mlm \in BOOLEAN,
     mtl \in {NoneV, 0, 3000}, cap \in {NoneV, 1500, 2006, 5000},
     ts \in {NoneV, 1505}, st \in {NoneV, 1000}, mll \in {NoneV, 1500, 3000}}

\* the odds compute_stake_for_liability is applied to in SpecStake
StakeOdds == {NoneV, 0, 50, 101, 1000} \cup {100 + 5 * k : k \in 0..MaxOddsStep}

\* ------------------------------------------------------------------- tasks
Fixtures == 1..NumFixtures
Tasks == 1..MaxTasks

\* a slot of the task table that holds no coroutine yet
Unborn == [pc |-> "unborn"]

\* the configurations main_loop runs under in Spec: liability mode with every
\* stake key at its default, and live mode with max_live_liability set and
\* max_price left out of the configuration file
MainConfigs ==
  {Settings(NoneV, TRUE, TRUE, NoneV, NoneV, NoneV, NoneV, NoneV, 5000),
   Settings(NoneV, FALSE, FALSE, NoneV, NoneV, NoneV, NoneV, 3000, NoneV)}

\* --------------------------------------------------------- fixture snapshots
\* one item of the API-Football response: fixture.status.elapsed, and goals
\* (hasGoals = FALSE: the goals entry is null)
Snap(e, g, hg, ag) == [elapsed |-> e, hasGoals |-> g, home |-> hg, away |-> ag]

Snapshots ==
  {Snap(e, TRUE, 0, 0) : e \in {NoneV, 0, 10, 85}}
  \cup {Snap(10, TRUE, 1, 0), Snap(10, TRUE, 0, 1), Snap(85, TRUE, 1, 1),
        Snap(10, FALSE, NoneV, NoneV), Snap(10, TRUE, NoneV, NoneV)}

\* the minute and score locals of handle_match once the candidate test is
\* over: they are not read again
NoEvent == [consumed |-> TRUE]

\* a fixture that is not in the response of get_live_fixtures
NotLive == [live |-> FALSE]

\* goals.get(side, 0) for goals = f.get("goals", {}) or {}
GoalsGet(ev, side) ==
  IF ~ev.hasGoals THEN 0 ELSE IF side = "home" THEN ev.home ELSE ev.away

InWindow(minute, S) == S.min_minute <= minute /\ minute <= S.max_minute

\* mutant of MainFilter: only the home goal count is tested
MainFilter_homeOnly(ev, S) ==
  /\ ev.elapsed # NoneV
  /\ ~Truthy(GoalsGet(ev, "home"))
  /\ InWindow(ev.elapsed, S)

\* the early filter of main_loop: TRUE when handle_match(f) is scheduled
MainFilter(ev, S) ==
  /\ ev.elapsed # NoneV
  /\ ~(Truthy(GoalsGet(ev, "home")) \/ Truthy(GoalsGet(ev, "away")))
  /\ InWindow(ev.elapsed, S)

\* x or 0
OrZero(v) == IF Truthy(v) THEN v ELSE 0

\* the candidate test of handle_match, for an event whose goals entry is a dict
HandleFilter(ev, S) ==
  /\ ev.elapsed # NoneV
  /\ ~(OrZero(ev.home) # 0 \/ OrZero(ev.away) # 0)
  /\ InWindow(ev.elapsed, S)

\* ------------------------------------------------------------ market quotes
Sels == {1, 2}
BackPrices == {100, 200, 6000}
LayPrices == {180, 200, 230}

\* a runner of a market book: runner.ex, ex.available_to_back, ex.available_to_lay
\* (each ladder holds the prices of its entries, best first)
Runner(ex, atb, atl) == [ex |-> ex, atb |-> atb, atl |-> atl]

\* next(..., None): no runner of the book has the selection id
NoRunner == [missing |-> TRUE]

safe_best_back(runner) ==
  IF runner = NoRunner THEN NoneV
  ELSE IF ~runner.ex THEN NoneV
  ELSE IF Len(runner.atb) = 0 THEN NoneV
  ELSE runner.atb[1]

\* mutant of safe_best_lay: a runner missing from the book is quoted at 1.8
safe_best_lay_quoted(runner) ==
  IF runner = NoRunner THEN 180
  ELSE IF ~runner.ex THEN NoneV
  ELSE IF Len(runner.atl) = 0 THEN NoneV
  ELSE runner.atl[1]

safe_best_lay(runner) ==
  IF runner = NoRunner THEN NoneV
  ELSE IF ~runner.ex THEN NoneV
  ELSE IF Len(runner.atl) = 0 THEN NoneV
  ELSE runner.atl[1]

EntryRunners ==
  {Runner(FALSE, <<>>, <<>>), Runner(TRUE, <<>>, <<>>)}
  \cup {Runner(TRUE, <<p>>, <<>>) : p \in BackPrices \cup {NoneV}}

CashRunners ==
  {Runner(FALSE, <<>>, <<>>), Runner(TRUE, <<>>, <<>>)}
  \cup {Runner(TRUE, <<>>, <<p>>) : p \in LayPrices \cup {NoneV}}

\* market books as returned by get_market_book, keyed by selection id
EntryBooks == [Sels -> EntryRunners \cup {NoRunner}]

\* the books a cash-out can see for the held selection sel: any runner (or
\* none) for sel, next to another runner that has a lay price
CashBooks(sel) ==
  {[s \in Sels |-> IF s = sel THEN r ELSE Runner(TRUE, <<>>, <<180>>)] :
     r \in CashRunners \cup {NoRunner}}

\* -------------------------------------------------------------------- orders
NoOrder == [status |-> "not_called"]

\* place_back_order / place_lay_order: venue is what place_orders does
\* ("SUCCESS", "FAILURE", or "ERROR" when it raises); the result is the
\* response status, "NONE" when the function returns None
PlaceOrder(market, sel, size, price, venue) ==
  [market |-> market, sel |-> sel, size |-> size, price |-> price,
   status |-> IF size <= 0 \/ price = NoneV THEN "NONE"
              ELSE IF venue = "ERROR" THEN "NONE" ELSE venue]

VenueResults == {"SUCCESS", "FAILURE", "ERROR"}

\* ------------------------------------------------------------- handle_match
\* the market id find_over15_market returns for a fixture
MarketOf(f) == 10 + f

\* the state of one handle_match(event) coroutine when main_loop creates it.
\* Next to the locals of the coroutine (fixture, ev, attempt, market, sel,
\* price, stake, matched) the record keeps what the coroutine has done so
\* far: the catalogue lookups it made, how the entry ended (outcome), the
\* BACK order (back), what the last monitoring iteration saw (seen, lastPoll,
\* trigger), how the monitor ended (exit) and the LAY order (lay, layCalls).
NewTask(f, ev) ==
  [pc |-> "start", fixture |-> f, ev |-> ev, attempt |-> 0, lookups |-> 0,
   outcome |-> "none", market |-> NoneV, sel |-> NoneV, price |-> NoneV,
   stake |-> 0, matched |-> 0, back |-> NoOrder, trigger |-> "none",
   seen |-> NoEvent, lastPoll |-> "none", exit |-> "none", layCalls |-> 0,
   lay |-> NoOrder]

\* the candidate test at the head of handle_match; event["goals"].get raises
\* when the goals entry is null
StartStep(tk, S) ==
  IF ~tk.ev.hasGoals THEN [tk EXCEPT !.pc = "raised", !.outcome = "raised"]
  ELSE IF ~HandleFilter(tk.ev, S) THEN [tk EXCEPT !.pc = "done", !.outcome = "not_candidate"]
  ELSE IF S.market_check_retry > 0 THEN [tk EXCEPT !.pc = "search", !.outcome = "candidate"]
  ELSE [tk EXCEPT !.pc = "done", !.outcome = "no_market"]

\* mutant of SearchStep: a lookup that raises or finds nothing ends the handler
SearchStep_fatal(tk, res, S) ==
  IF res = "found"
  THEN [tk EXCEPT !.pc = "entry", !.lookups = @ + 1, !.market = MarketOf(tk.fixture),
                  !.outcome = "resolved"]
  ELSE [tk EXCEPT !.pc = "raised", !.attempt = @ + 1, !.lookups = @ + 1,
                  !.outcome = "raised"]

\* one iteration of the market search loop: res is what find_over15_market
\* does ("found", "none", or "raise")
SearchStep(tk, res, S) ==
  IF res = "found"
  THEN [tk EXCEPT !.pc = "entry", !.lookups = @ + 1, !.market = MarketOf(tk.fixture),
                  !.outcome = "resolved"]
  ELSE IF tk.attempt + 1 < S.market_check_retry
  THEN [tk EXCEPT !.attempt = @ + 1, !.lookups = @ + 1]
  ELSE [tk EXCEPT !.pc = "done", !.attempt = @ + 1, !.lookups = @ + 1,
                  !.outcome = "no_market"]

\* the first runner of the book with a back price, NoneV when there is none
FirstBackable(book) ==
  LET c == {s \in Sels : Truthy(safe_best_back(book[s]))}
  IN  IF c = {} THEN NoneV ELSE CHOOSE s \in c : \A x \in c : s <= x

\* selection resolution: cat is the selection id of the catalogue runner named
\* "Over 1.5" (NoneV when no runner name matches)
ResolveSelection(cat, book) ==
  LET named == IF cat # NoneV THEN book[cat] ELSE NoRunner
      fb == FirstBackable(book)
  IN  IF named # NoRunner THEN [runner |-> named, over |-> cat]
      ELSE IF fb # NoneV THEN [runner |-> book[fb], over |-> fb]
      ELSE [runner |-> NoRunner, over |-> cat]

\* mutant of MatchedSize: half of the stake is taken as matched
MatchedSize_partial(resp, reportOk, stake) ==
  IF resp.status = "SUCCESS" /\ reportOk THEN stake \div 2 ELSE 0

\* matched_size after the place response is parsed
MatchedSize(resp, reportOk, stake) ==
  IF resp.status = "SUCCESS" /\ reportOk THEN stake ELSE 0

\* mutant of SkipPlacement: only a negative stake skips the placement
SkipPlacement_negative(stake) == stake < 0

\* the guard "if stake <= 0: return" before the BACK order
SkipPlacement(stake) == stake <= 0

\* from the market book fetch to the BACK order
EntryStep(tk, bookRes, cat, book, venue, reportOk, S) ==
  IF bookRes = "raise" THEN [tk EXCEPT !.pc = "raised", !.outcome = "raised"]
  ELSE IF bookRes = "none" THEN [tk EXCEPT !.pc = "done", !.outcome = "no_book"]
  ELSE
    LET r == ResolveSelection(cat, book)
        best_back == safe_best_back(r.runner)
        stake == compute_stake_for_liability(best_back, S)
        resp == PlaceOrder(tk.market, r.over, stake, best_back, venue)
    IN  IF r.runner = NoRunner \/ r.over = NoneV
        THEN [tk EXCEPT !.pc = "done", !.outcome = "no_runner"]
        ELSE IF best_back = NoneV
        THEN [tk EXCEPT !.pc = "done", !.outcome = "no_price", !.sel = r.over]
        ELSE IF best_back > Get(S.max_price, DefaultMaxPrice)
        THEN IF S.max_price = NoneV
             THEN [tk EXCEPT !.pc = "raised", !.outcome = "raised",
                             !.sel = r.over, !.price = best_back]
             ELSE [tk EXCEPT !.pc = "done", !.outcome = "price_high",
                             !.sel = r.over, !.price = best_back]
        ELSE IF SkipPlacement(stake)
        THEN [tk EXCEPT !.pc = "done", !.outcome = "stake_zero",
                        !.sel = r.over, !.price = best_back, !.stake = stake]
        ELSE [tk EXCEPT !.pc = "monitor", !.outcome = "back_called",
                        !.sel = r.over, !.price = best_back, !.stake = stake,
                        !.back = resp, !.matched = MatchedSize(resp, reportOk, stake)]

\* mutant of ExitTrigger: no snapshot is an exit trigger
ExitTrigger_never(snap, S) == "none"

\* mutant of ExitTrigger: every snapshot counts as a goal
ExitTrigger_always(snap, S) == "goal"

\* the exit trigger a monitoring poll sees in the snapshot it fetched
ExitTrigger(snap, S) ==
  IF OrZero(GoalsGet(snap, "home")) # 0 \/ OrZero(GoalsGet(snap, "away")) # 0 THEN "goal"
  ELSE IF OrZero(snap.elapsed) >= Get(S.cashout_minute, DefaultCashoutMinute) THEN "time"
  ELSE "none"

\* mutant of AfterLayPc: the loop is not left after the lay order
AfterLayPc_continue == "monitor"

\* the break after place_lay_order
AfterLayPc == "done"

\* mutant of AfterFetchFailPc: a failed re-fetch ends the monitor
AfterFetchFailPc_exit == "done"

\* after a failed or empty fixture re-fetch the while loop goes on: the except
\* clause and the empty-response branch both sleep and iterate again
AfterFetchFailPc == "monitor"

\* one iteration of wait_and_cashout: fetch is what the fixture re-fetch does
\* ("raise", "empty", "ok"), snap the snapshot it returns
MonitorStep(tk, fetch, snap, bookRes, book, venue, S) ==
  IF fetch = "raise"
  THEN [tk EXCEPT !.pc = AfterFetchFailPc, !.lastPoll = "fetch_error", !.seen = NoEvent]
  ELSE IF fetch = "empty"
  THEN [tk EXCEPT !.pc = AfterFetchFailPc, !.lastPoll = "empty", !.seen = NoEvent]
  ELSE
    LET trig == ExitTrigger(snap, S)
        lay_price == safe_best_lay(book[tk.sel])
        size == IF Truthy(tk.matched) THEN tk.matched ELSE tk.stake
        polled == [tk EXCEPT !.seen = snap]
    IN  IF trig = "none" THEN [polled EXCEPT !.lastPoll = "no_trigger"]
        ELSE IF bookRes = "raise"
        THEN [polled EXCEPT !.lastPoll = "book_error", !.trigger = trig]
        ELSE IF bookRes = "none"
        THEN [polled EXCEPT !.pc = "done", !.lastPoll = "trigger", !.trigger = trig,
                            !.exit = "no_book"]
        ELSE IF Truthy(lay_price)
        THEN [polled EXCEPT !.pc = AfterLayPc, !.lastPoll = "trigger", !.trigger = trig,
                            !.exit = "lay_called", !.layCalls = @ + 1,
                            !.lay = PlaceOrder(tk.market, tk.sel, size, lay_price, venue)]
        ELSE [polled EXCEPT !.pc = "done", !.lastPoll = "trigger", !.trigger = trig,
                            !.exit = "no_lay_price"]

\* what the outside world can answer during one entry step: the market book
\* fetch raises, returns nothing, or returns a book; the catalogue names the
\* Over 1.5 runner or not; the venue accepts, rejects or fails the order
EntryInputs ==
  {[bookRes |-> b, cat |-> NoneV, book |-> [s \in Sels |-> NoRunner],
    venue |-> "ERROR", reportOk |-> FALSE] : b \in {"raise", "none"}}
  \cup
  {[bookRes |-> "book", cat |-> c, book |-> bk, venue |-> v, reportOk |-> ok] :
     c \in Sels \cup {NoneV}, bk \in EntryBooks,
     v \in VenueResults, ok \in BOOLEAN}

\* what the outside world can answer during one monitoring iteration
MonitorInputs(sel) ==
  {[fetch |-> f, snap |-> Snap(NoneV, FALSE, NoneV, NoneV), bookRes |-> "none",
    book |-> [s \in Sels |-> NoRunner], venue |-> "ERROR"] : f \in {"raise", "empty"}}
  \cup
  {[fetch |-> "ok", snap |-> sn, bookRes |-> b,
    book |-> [s \in Sels |-> NoRunner], venue |-> "ERROR"] :
     sn \in Snapshots, b \in {"raise", "none"}}
  \cup
  {[fetch |-> "ok", snap |-> sn, bookRes |-> "book", book |-> bk, venue |-> v] :
     sn \in Snapshots, bk \in CashBooks(sel), v \in VenueResults}

\* ------------------------------------------------- specification SpecHandler
\* one handle_match coroutine, followed from its creation by main_loop to its
\* end, under every answer of the feed and of the exchange
HandlerConfigs ==
  {Settings(NoneV, TRUE, TRUE, NoneV, NoneV, NoneV, NoneV, NoneV, 5000),
   Settings(NoneV, TRUE, FALSE, NoneV, NoneV, NoneV, NoneV, NoneV, 5000),
   Settings(NoneV, FALSE, FALSE, NoneV, NoneV, NoneV, NoneV, 3000, NoneV)}

InitHandler ==
  /\ SET \in HandlerConfigs
  /\ \E f \in Fixtures, ev \in Snapshots :
       /\ MainFilter(ev, SET)
       /\ h = NewTask(f, ev)
  /\ mainPc = "off"
  /\ awaited = {}
  /\ nTasks = 0
  /\ task = [t \in Tasks |-> Unborn]
  /\ szOdds = NoneV
  /\ szStake = 0
  /\ szPc = "off"

HStart ==
  /\ h.pc = "start"
  /\ h' = StartStep(h, SET)
  /\ UNCHANGED <<SET, mainPc, awaited, nTasks, task, szOdds, szStake, szPc>>

HSearch ==
  /\ h.pc = "search"
  /\ \E res \in {"found", "none", "raise"} : h' = SearchStep(h, res, SET)
  /\ UNCHANGED <<SET, mainPc, awaited, nTasks, task, szOdds, szStake, szPc>>

HEntry ==
  /\ h.pc = "entry"
  /\ \E in \in EntryInputs :
       h' = EntryStep(h, in.bookRes, in.cat, in.book, in.venue, in.reportOk, SET)
  /\ UNCHANGED <<SET, mainPc, awaited, nTasks, task, szOdds, szStake, szPc>>

HMonitor ==
  /\ h.pc = "monitor"
  /\ \E in \in MonitorInputs(h.sel) :
       h' = MonitorStep(h, in.fetch, in.snap, in.bookRes, in.book, in.venue, SET)
  /\ UNCHANGED <<SET, mainPc, awaited, nTasks, task, szOdds, szStake, szPc>>

NextHandler == HStart \/ HSearch \/ HEntry \/ HMonitor

SpecHandler == InitHandler /\ [][NextHandler]_vars

\* --------------------------------------------------------- specification Spec
\* main_loop and the coroutines it gathers.  Of each coroutine the table keeps
\* the locals that are still read: the minute and score of the event are not
\* read after the candidate test, nor the loop counter after the search loop,
\* and a coroutine that has returned or raised has no locals left.  What a
\* single coroutine did step by step is followed in SpecHandler.
Kept(tk) ==
  IF tk.pc \in {"done", "raised"}
  THEN [NewTask(tk.fixture, NoEvent) EXCEPT
          !.pc = tk.pc,
          !.outcome = IF tk.pc = "raised" THEN "raised"
                      ELSE IF tk.back = NoOrder THEN "abandoned" ELSE "back_called"]
  ELSE [tk EXCEPT !.ev = IF tk.pc = "start" THEN @ ELSE NoEvent,
                  !.attempt = IF tk.pc = "search" THEN @ ELSE 0,
                  !.lookups = 0, !.seen = NoEvent, !.lastPoll = "none",
                  !.trigger = "none"]

\* the answers of the exchange to an entry step that Spec follows: one for
\* each way EntryStep can end
OrchEntryInputs ==
  {[bookRes |-> b, cat |-> NoneV, book |-> [s \in Sels |-> NoRunner],
    venue |-> "ERROR", reportOk |-> FALSE] : b \in {"raise", "none"}}
  \cup
  {[bookRes |-> "book", cat |-> 1, book |-> [s \in Sels |-> IF s = 1 THEN r ELSE NoRunner],
    venue |-> v, reportOk |-> TRUE] :
     r \in {NoRunner, Runner(TRUE, <<>>, <<>>), Runner(TRUE, <<100>>, <<>>),
            Runner(TRUE, <<200>>, <<>>), Runner(TRUE, <<6000>>, <<>>)},
     v \in {"SUCCESS", "ERROR"}}

\* the answers of the feed and the exchange to a monitoring iteration that
\* Spec follows: one for each way MonitorStep can end
OrchMonitorInputs(sel) ==
  {[fetch |-> "raise", snap |-> Snap(NoneV, FALSE, NoneV, NoneV), bookRes |-> "none",
    book |-> [s \in Sels |-> NoRunner], venue |-> "ERROR"]}
  \cup
  {[fetch |-> "ok", snap |-> sn, bookRes |-> b,
    book |-> [s \in Sels |-> NoRunner], venue |-> "ERROR"] :
     sn \in {Snap(10, TRUE, 0, 0), Snap(10, TRUE, 1, 0)}, b \in {"raise", "none"}}
  \cup
  {[fetch |-> "ok", snap |-> Snap(10, TRUE, 1, 0), bookRes |-> "book",
    book |-> [s \in Sels |-> IF s = sel THEN r ELSE NoRunner], venue |-> "SUCCESS"] :
     r \in {Runner(TRUE, <<>>, <<>>), Runner(TRUE, <<>>, <<180>>)}}

\* the snapshots a response of get_live_fixtures carries in Spec: one the
\* early filter of main_loop rejects, one it keeps, and one it keeps and
\* handle_match raises on
PollSnapshots ==
  {Snap(10, TRUE, 1, 0), Snap(10, TRUE, 0, 0), Snap(10, FALSE, NoneV, NoneV)}

Born(t) == task[t].pc # "unborn"

Init ==
  /\ SET \in MainConfigs
  /\ mainPc = "login"
  /\ awaited = {}
  /\ nTasks = 0
  /\ task = [t \in Tasks |-> Unborn]
  /\ h = Unborn
  /\ szOdds = NoneV
  /\ szStake = 0
  /\ szPc = "off"

\* bf_login() returns
Login ==
  /\ mainPc = "login"
  /\ mainPc' = "poll"
  /\ UNCHANGED <<SET, awaited, nTasks, task, h, szOdds, szStake, szPc>>

\* bf_login() raises: main_loop ends before its loop
LoginFail ==
  /\ mainPc = "login"
  /\ mainPc' = "exited"
  /\ UNCHANGED <<SET, awaited, nTasks, task, h, szOdds, szStake, szPc>>

\* one poll cycle up to asyncio.gather: batch is the response of
\* get_live_fixtures.  With nothing to gather the cycle ends in
\* asyncio.sleep(SET["poll_seconds"]) and the next cycle begins.
MainPoll(batch) ==
  /\ mainPc = "poll"
  /\ LET q == {f \in Fixtures : batch[f] # NotLive /\ MainFilter(batch[f], SET)}
         id(f) == nTasks + Cardinality({g \in q : g <= f})
     IN  /\ nTasks + Cardinality(q) <= MaxTasks
         /\ task' = [t \in Tasks |->
                       IF \E f \in q : id(f) = t
                       THEN LET f == CHOOSE g \in q : id(g) = t IN NewTask(f, batch[f])
                       ELSE task[t]]
         /\ nTasks' = nTasks + Cardinality(q)
         /\ awaited' = {id(f) : f \in q}
         /\ mainPc' = IF q = {} THEN "poll" ELSE "gather"
  /\ UNCHANGED <<SET, h, szOdds, szStake, szPc>>

\* get_live_fixtures raises: caught by the except of the cycle
MainPollFail ==
  /\ mainPc = "poll"
  /\ mainPc' = "backoff"
  /\ UNCHANGED <<SET, awaited, nTasks, task, h, szOdds, szStake, szPc>>

\* asyncio.gather returns: every awaited coroutine has returned; the cycle
\* ends in asyncio.sleep(SET["poll_seconds"]) and the next cycle begins
MainGatherDone ==
  /\ mainPc = "gather"
  /\ \A t \in awaited : task[t].pc = "done"
  /\ mainPc' = "poll"
  /\ awaited' = {}
  /\ UNCHANGED <<SET, nTasks, task, h, szOdds, szStake, szPc>>

\* asyncio.gather propagates the exception of an awaited coroutine; the other
\* awaited coroutines are not cancelled and keep running
MainGatherRaise ==
  /\ mainPc = "gather"
  /\ \E t \in awaited : task[t].pc = "raised"
  /\ mainPc' = "backoff"
  /\ awaited' = {}
  /\ UNCHANGED <<SET, nTasks, task, h, szOdds, szStake, szPc>>

\* mutant of AfterBackoffPc: the exception of a cycle ends main_loop
AfterBackoffPc_exit == "exited"

\* the except clause lies inside "while True": after it the next cycle begins
AfterBackoffPc == "poll"

\* await asyncio.sleep(5) in the except of the cycle
MainBackoff ==
  /\ mainPc = "backoff"
  /\ mainPc' = AfterBackoffPc
  /\ UNCHANGED <<SET, awaited, nTasks, task, h, szOdds, szStake, szPc>>

TaskStart(t) ==
  /\ task[t].pc = "start"
  /\ task' = [task EXCEPT ![t] = Kept(StartStep(task[t], SET))]
  /\ UNCHANGED <<SET, mainPc, awaited, nTasks, h, szOdds, szStake, szPc>>

TaskSearch(t) ==
  /\ task[t].pc = "search"
  /\ \E res \in {"found", "none", "raise"} :
       task' = [task EXCEPT ![t] = Kept(SearchStep(task[t], res, SET))]
  /\ UNCHANGED <<SET, mainPc, awaited, nTasks, h, szOdds, szStake, szPc>>

TaskEntry(t) ==
  /\ task[t].pc = "entry"
  /\ \E in \in OrchEntryInputs :
       task' = [task EXCEPT ![t] =
                  Kept(EntryStep(task[t], in.bookRes, in.cat, in.book, in.venue, in.reportOk, SET))]
  /\ UNCHANGED <<SET, mainPc, awaited, nTasks, h, szOdds, szStake, szPc>>

TaskMonitor(t) ==
  /\ task[t].pc = "monitor"
  /\ \E in \in OrchMonitorInputs(task[t].sel) :
       task' = [task EXCEPT ![t] =
                  Kept(MonitorStep(task[t], in.fetch, in.snap, in.bookRes, in.book, in.venue, SET))]
  /\ UNCHANGED <<SET, mainPc, awaited, nTasks, h, szOdds, szStake, szPc>>

Next ==
  \/ Login
  \/ LoginFail
  \/ \E batch \in [Fixtures -> PollSnapshots \cup {NotLive}] : MainPoll(batch)
  \/ MainPollFail
  \/ MainGatherDone
  \/ MainGatherRaise
  \/ MainBackoff
  \/ \E t \in Tasks : TaskStart(t)
  \/ \E t \in Tasks : TaskSearch(t)
  \/ \E t \in Tasks : TaskEntry(t)
  \/ \E t \in Tasks : TaskMonitor(t)

Spec == Init /\ [][Next]_vars

\* --------------------------------------------- specification SpecHandlerLive
\* one handle_match coroutine under the answers that tell its paths apart:
\* one entry answer for each way EntryStep can end, and for a monitoring
\* iteration a re-fetch that raises, one that is empty, and a snapshot with no
\* trigger, with a goal or with the cashout minute, each with a book fetch
\* that raises, returns nothing, or returns one of the books of CashBooks
LiveMonitorInputs(sel) ==
  {[fetch |-> f, snap |-> Snap(NoneV, FALSE, NoneV, NoneV), bookRes |-> "none",
    book |-> [s \in Sels |-> NoRunner], venue |-> "ERROR"] : f \in {"raise", "empty"}}
  \cup
  {[fetch |-> "ok", snap |-> sn, bookRes |-> b,
    book |-> [s \in Sels |-> NoRunner], venue |-> "ERROR"] :
     sn \in {Snap(10, TRUE, 0, 0), Snap(10, TRUE, 1, 0), Snap(85, TRUE, 0, 0)},
     b \in {"raise", "none"}}
  \cup
  {[fetch |-> "ok", snap |-> sn, bookRes |-> "book", book |-> bk, venue |-> v] :
     sn \in {Snap(10, TRUE, 0, 0), Snap(10, TRUE, 1, 0), Snap(85, TRUE, 0, 0)},
     bk \in CashBooks(sel), v \in {"SUCCESS", "ERROR"}}

LEntry ==
  /\ h.pc = "entry"
  /\ \E in \in OrchEntryInputs :
       h' = EntryStep(h, in.bookRes, in.cat, in.book, in.venue, in.reportOk, SET)
  /\ UNCHANGED <<SET, mainPc, awaited, nTasks, task, szOdds, szStake, szPc>>

LMonitor ==
  /\ h.pc = "monitor"
  /\ \E in \in LiveMonitorInputs(h.sel) :
       h' = MonitorStep(h, in.fetch, in.snap, in.bookRes, in.book, in.venue, SET)
  /\ UNCHANGED <<SET, mainPc, awaited, nTasks, task, szOdds, szStake, szPc>>

\* a monitoring iteration in which the fixture re-fetch succeeds, the feed
\* reports a nonzero goal count or a minute >= cashout_minute, and the market
\* book fetch does not raise
LMonitorGood ==
  /\ h.pc = "monitor"
  /\ \E in \in LiveMonitorInputs(h.sel) :
       /\ in.fetch = "ok"
       /\ ExitTrigger(in.snap, SET) # "none"
       /\ in.bookRes # "raise"
       /\ h' = MonitorStep(h, in.fetch, in.snap, in.bookRes, in.book, in.venue, SET)
  /\ UNCHANGED <<SET, mainPc, awaited, nTasks, task, szOdds, szStake, szPc>>

NextHandlerLive == HStart \/ HSearch \/ LEntry \/ LMonitor

\* wait_and_cashout iterates for as long as it has not left its loop (every
\* path through the body ends in a sleep or a break), so under a feed that
\* from some time on answers and reports the trigger, and an exchange that
\* from some time on answers, an iteration LMonitorGood is eventually run
SpecHandlerLive == InitHandler /\ [][NextHandlerLive]_vars /\ WF_vars(LMonitorGood)

\* ------------------------------------------------------ claims on handle_match
\* the entry step failed: no back price, back price above max_price, stake 0,
\* or place_back_order returned None or a status other than SUCCESS
EntryFailed ==
  \/ h.outcome \in {"no_price", "price_high", "stake_zero"}
  \/ (h.back # NoOrder /\ h.back.status # "SUCCESS")

\* C1: a failure at the entry step ends the handler at once: the monitoring
\* loop is never entered and no LAY order is placed by that handler.
C1_EntryFailureAbandons ==
  EntryFailed => (h.pc \in {"done", "raised"} /\ h.exit = "none" /\ h.layCalls = 0)

\* C2: place_lay_order is called only with a lay price strictly lower than
\* the entry back price; with a lay price greater than or equal to the entry
\* price the monitor ends without a lay order call.
C2_LayOnlyBelowEntry ==
  h.layCalls > 0 => (h.lay.price # NoneV /\ h.lay.price < h.price)

\* C5: within one run of handle_match place_lay_order is called at most once,
\* and once it has been called the monitor has terminated: the iteration that
\* saw the exit trigger is the last one, whether the lay order succeeded or not.
C5_AtMostOneLay ==
  /\ h.layCalls <= 1
  /\ h.layCalls = 1 => (h.pc = "done" /\ h.lastPoll = "trigger" /\ h.exit = "lay_called")

\* the monitor has ended after a lay order that the venue did not accept
C5_Witness ==
  /\ h.pc = "done"
  /\ h.layCalls = 1
  /\ h.lay.status # "SUCCESS"

\* C8: for odds <= 1.0 and for absent odds compute_stake_for_liability
\* returns 0 in every risk mode, and handle_match never calls
\* place_back_order when the computed stake is 0.
C8_ZeroStakeNeverPlaced ==
  /\ \A o \in {NoneV, 0, 50, 100} : compute_stake_for_liability(o, SET) = 0
  /\ h.back # NoOrder =>
       /\ h.stake = compute_stake_for_liability(h.price, SET)
       /\ h.stake > 0
       /\ h.back.size = h.stake
  /\ (h.outcome = "stake_zero" \/ (h.price # NoneV /\ h.price <= 100)) =>
       (h.back = NoOrder /\ h.pc \in {"done", "raised"})

\* the best back price was 1.0, the stake came out 0 and no order was placed
C8_Witness ==
  /\ h.outcome = "stake_zero"
  /\ h.price = 100
  /\ h.stake = 0
  /\ h.back = NoOrder

\* the snapshots the two candidate tests are compared on
AllSnapshots ==
  {Snap(e, g, hg, ag) : e \in {NoneV, 0, 1, 10, 80, 81, 85}, g \in BOOLEAN,
                        hg \in {NoneV, 0, 1}, ag \in {NoneV, 0, 1}}

\* the snapshot must not become a Candidate: its minute is absent, a goal
\* count is nonzero, or its minute lies outside [min_minute, max_minute]
Rejectable(ev, S) ==
  \/ ev.elapsed = NoneV
  \/ (ev.hasGoals /\ ev.home # NoneV /\ ev.home # 0)
  \/ (ev.hasGoals /\ ev.away # NoneV /\ ev.away # 0)
  \/ ev.elapsed < S.min_minute
  \/ ev.elapsed > S.max_minute

\* the handler has gone past its candidate test to the market search
ReachedSearch == h.pc \in {"search", "entry", "monitor"} \/ h.lookups > 0

\* C10: no snapshot is scheduled by main_loop, or reaches the market search
\* of handle_match, when its minute is absent, a goal count is nonzero or its
\* minute lies outside the window; a 0-0 snapshot at minute 10 with window
\* [1, 80] is scheduled and reaches the market search.
C10_CandidateFilter ==
  /\ ~Rejectable(h.ev, SET)
  /\ ReachedSearch => (h.ev.hasGoals /\ HandleFilter(h.ev, SET))
  /\ \A ev \in AllSnapshots :
       /\ MainFilter(ev, SET) => ~Rejectable(ev, SET)
       /\ (ev.hasGoals /\ HandleFilter(ev, SET)) => ~Rejectable(ev, SET)
  /\ (SET.min_minute = 1 /\ SET.max_minute = 80) =>
       /\ MainFilter(Snap(10, TRUE, 0, 0), SET)
       /\ HandleFilter(Snap(10, TRUE, 0, 0), SET)
       /\ (h.ev = Snap(10, TRUE, 0, 0) /\ h.pc # "start") => ReachedSearch

\* the 0-0 snapshot at minute 10 was scheduled and its handler is searching
\* for the market
C10_Witness ==
  /\ SET.min_minute = 1
  /\ SET.max_minute = 80
  /\ h.ev = Snap(10, TRUE, 0, 0)
  /\ h.pc = "search"

\* C11: in the monitoring loop a fixture re-fetch that raises or returns an
\* empty response does not end the monitor and places no order: the handler
\* stays in the loop, where the next iteration polls again.
C11_FetchFailureKeepsMonitoring ==
  h.lastPoll \in {"fetch_error", "empty"} =>
    /\ h.pc = "monitor"
    /\ h.exit = "none"
    /\ h.layCalls = 0
    /\ h.lay = NoOrder
    /\ h.back # NoOrder
    /\ ENABLED HMonitor

\* the last re-fetch of a running monitor raised
C11_Witness ==
  /\ h.lastPoll = "fetch_error"
  /\ h.pc = "monitor"

\* C13: market resolution makes at most market_check_retry catalogue lookups
\* and stops at the first one that returns a market; a lookup that raises or
\* finds nothing is retried, not fatal; when every attempt has failed the
\* handler ends with no market-book fetch and no order.
C13_MarketSearchBounded ==
  /\ h.lookups <= SET.market_check_retry
  /\ h.pc = "search" => (h.market = NoneV /\ h.lookups = h.attempt
                          /\ h.attempt < SET.market_check_retry)
  /\ h.market # NoneV => (h.pc # "search" /\ h.lookups = h.attempt + 1)
  /\ (h.lookups >= 1 /\ h.market = NoneV) =>
       /\ h.pc \in {"search", "done"}
       /\ h.pc = "done" => h.outcome = "no_market"
  /\ h.outcome = "no_market" =>
       /\ h.pc = "done"
       /\ h.lookups = SET.market_check_retry
       /\ h.market = NoneV
       /\ h.sel = NoneV
       /\ h.price = NoneV
       /\ h.back = NoOrder
       /\ h.lay = NoOrder

\* the first lookup failed and the handler is still searching
C13_Witness ==
  /\ h.pc = "search"
  /\ h.lookups = 1
  /\ h.market = NoneV

\* the snapshot shows a nonzero goal count
GoalSeen(snap) ==
  /\ snap # NoEvent
  /\ snap.hasGoals
  /\ (snap.home \notin {NoneV, 0} \/ snap.away \notin {NoneV, 0})

\* the snapshot shows an elapsed minute >= cashout_minute
TimeSeen(snap, S) ==
  /\ snap # NoEvent
  /\ snap.elapsed # NoneV
  /\ snap.elapsed >= Get(S.cashout_minute, DefaultCashoutMinute)

\* C15: the steps of one handle_match run are ordered: the BACK order call
\* comes after a market and a selection were resolved with back price <=
\* max_price and stake > 0; the LAY order call comes after the BACK order call
\* and in an iteration whose poll showed a nonzero goal count or a minute >=
\* cashout_minute; a poll showing neither places no order and the monitor
\* keeps polling.
C15_StepsOrdered ==
  /\ h.back # NoOrder =>
       /\ h.market # NoneV /\ h.sel # NoneV /\ h.price # NoneV
       /\ h.price <= Get(SET.max_price, DefaultMaxPrice)
       /\ h.stake > 0
       /\ h.lookups >= 1
  /\ h.pc = "monitor" => h.back # NoOrder
  /\ h.layCalls > 0 =>
       /\ h.back # NoOrder
       /\ GoalSeen(h.seen) \/ TimeSeen(h.seen, SET)
  /\ (h.seen # NoEvent /\ ~GoalSeen(h.seen) /\ ~TimeSeen(h.seen, SET)) =>
       /\ h.pc = "monitor"
       /\ h.layCalls = 0
       /\ h.lay = NoOrder
       /\ h.exit = "none"

\* a LAY order was called after a poll that showed minute >= cashout_minute
\* and no goal
C15_Witness ==
  /\ h.layCalls = 1
  /\ h.back # NoOrder
  /\ TimeSeen(h.seen, SET)
  /\ ~GoalSeen(h.seen)

\* C17: when the fixture re-fetches and the market-book fetches eventually
\* succeed and the feed eventually keeps reporting a nonzero goal count or a
\* minute >= cashout_minute, a handler in its monitoring loop eventually
\* leaves it, with or without a hedge order.
C17_MonitorTerminates == (h.pc = "monitor") ~> (h.pc = "done" /\ h.exit # "none")

\* the monitor has ended without a hedge order
C17_Witness ==
  /\ h.pc = "done"
  /\ h.exit = "no_lay_price"
  /\ h.layCalls = 0

\* the answer to a monitoring iteration shows an exit trigger but nothing to
\* lay at: the market book is absent, the held selection is missing from it,
\* or the selection has no lay price
NothingToLay(in, sel) ==
  /\ in.fetch = "ok"
  /\ GoalSeen(in.snap) \/ TimeSeen(in.snap, SET)
  /\ \/ in.bookRes = "none"
     \/ /\ in.bookRes = "book"
        /\ \/ in.book[sel] = NoRunner
           \/ ~in.book[sel].ex
           \/ in.book[sel].atl = <<>>
           \/ in.book[sel].atl[1] = NoneV

\* C18: when an exit trigger fires and the market book is absent, or the held
\* selection is missing from the book, or it has no lay price, that iteration
\* ends the monitor with no lay order call and without polling again.
C18_NothingToLayEndsMonitor ==
  [][\A in \in LiveMonitorInputs(h.sel) :
       (h.pc = "monitor" /\ NothingToLay(in, h.sel)
          /\ h' = MonitorStep(h, in.fetch, in.snap, in.bookRes, in.book, in.venue, SET))
       => /\ h'.pc = "done"
          /\ h'.exit \in {"no_book", "no_lay_price"}
          /\ h'.layCalls = 0
          /\ h'.lay = NoOrder
          /\ h'.lastPoll = "trigger"]_vars

\* the monitor has ended on a trigger with no market book, un-hedged
C18_Witness ==
  /\ h.pc = "done"
  /\ h.exit = "no_book"
  /\ h.back # NoOrder
  /\ h.lay = NoOrder

\* C19: every LAY order of a monitor targets the market id and the selection
\* id of that monitor's BACK order and its size is the stake of that BACK
\* order; no monitoring step changes the market, the selection, the stake or
\* the BACK order fixed at entry.
C19_LayMirrorsBack ==
  /\ [](h.lay # NoOrder =>
          /\ h.back # NoOrder
          /\ h.lay.market = h.back.market /\ h.lay.market = h.market
          /\ h.lay.sel = h.back.sel /\ h.lay.sel = h.sel
          /\ h.lay.size = h.back.size /\ h.lay.size = h.stake)
  /\ [][h.pc = "monitor" =>
          /\ h'.market = h.market
          /\ h'.sel = h.sel
          /\ h'.stake = h.stake
          /\ h'.price = h.price
          /\ h'.back = h.back]_vars

\* a LAY order accepted by the venue after a BACK order that was matched
C19_Witness ==
  /\ h.layCalls = 1
  /\ h.lay.status = "SUCCESS"
  /\ h.back.status = "SUCCESS"
  /\ h.matched = h.stake
  /\ h.lay.size = h.back.size

\* ------------------------------------------------------- claims on main_loop
\* a handle_match coroutine that has neither returned nor raised
Active(t) == Born(t) /\ task[t].pc \notin {"done", "raised"}

\* C3: at most one handle_match task is active per fixture id, across any
\* sequence of poll cycles.
C3_OneMonitorPerFixture ==
  \A f \in Fixtures : Cardinality({t \in Tasks : Active(t) /\ task[t].fixture = f}) <= 1

NoHandlerRaised == \A t \in Tasks : task[t].pc # "raised"

\* C4: the poll loop does not block on a monitor: while a handle_match task
\* is in its monitoring loop and no handler has raised, main_loop is not
\* held at asyncio.gather waiting for that task.
C4_PollNotBlockedByMonitor ==
  \A t \in Tasks :
    (task[t].pc = "monitor" /\ NoHandlerRaised) => ~(mainPc = "gather" /\ t \in awaited)

\* main_loop is inside its "while True" loop
InLoop == mainPc \in {"poll", "gather", "backoff"}

\* C12: after login an exception raised inside a poll cycle (the feed fetch
\* fails, or an exception leaves a handle_match task through asyncio.gather)
\* is caught by the cycle: main_loop goes to its backoff and from there to a
\* further poll; once in the loop it never exits.
C12_CycleFailureCaught ==
  [][/\ InLoop => (mainPc' # "exited" /\ InLoop')
     /\ (mainPc = "gather" /\ mainPc' # mainPc /\ \E t \in awaited : task[t].pc = "raised")
          => mainPc' = "backoff"
     /\ (mainPc = "poll" /\ mainPc' \notin {"poll", "gather"}) => mainPc' = "backoff"
     /\ (mainPc = "backoff" /\ mainPc' # mainPc) => mainPc' = "poll"]_vars

\* a handler has raised out of asyncio.gather and main_loop is polling again
C12_Witness ==
  /\ mainPc = "poll"
  /\ \E t \in Tasks : task[t].pc = "raised"

\* the handle_match tasks created for fixture f, in creation order
TasksOf(f) == {t \in Tasks : Born(t) /\ task[t].fixture = f}

\* the handler has called place_back_order
BackCalled(t) == Born(t) /\ task[t].outcome = "back_called"

\* C14: once the handler of a fixture has ended, no new handler (market
\* search, BACK order, monitoring poll) is started for the same fixture id in
\* any later poll cycle, and at most one BACK order is placed per fixture id.
C14_TerminalIsFinal ==
  \A f \in Fixtures :
    /\ \A t1, t2 \in TasksOf(f) : t1 < t2 => task[t1].pc # "done"
    /\ Cardinality({t \in TasksOf(f) : BackCalled(t)}) <= 1

\* ---------------------------------------------------- specification SpecStake
InitStake ==
  /\ SET \in StakeConfigs
  /\ szOdds \in StakeOdds
  /\ szStake = 0
  /\ szPc = "ready"
  /\ mainPc = "off"
  /\ awaited = {}
  /\ nTasks = 0
  /\ task = [t \in Tasks |-> Unborn]
  /\ h = Unborn

\* one call stake = compute_stake_for_liability(odds)
StakeCall ==
  /\ szPc = "ready"
  /\ szStake' = compute_stake_for_liability(szOdds, SET)
  /\ szPc' = "done"
  /\ UNCHANGED <<SET, mainPc, awaited, nTasks, task, h, szOdds>>

NextStake == StakeCall

SpecStake == InitStake /\ [][NextStake]_vars

\* (odds - 1) * stake <= limit, with odds in hundredths and money in mills
LiabilityWithin(odds, stake, limit) == (odds - 100) * stake <= 100 * limit

\* the min_back_stake floor raised the stake above the liability target
FloorRaised(odds, S) ==
  FracLt(LiabilityTarget(odds, S), Get(S.min_back_stake, DefaultMinBackStake))

\* C6: in liability mode, for every odds > 1.0, the returned stake has
\* (odds - 1) * stake <= max_test_liability unless the min_back_stake floor
\* raised the stake above the liability target (after cap and rounding).
C6_LiabilityBounded ==
  (szPc = "done" /\ LiabilityMode(SET) /\ OddsUsable(szOdds) /\ ~FloorRaised(szOdds, SET))
    => LiabilityWithin(szOdds, szStake, Get(SET.max_test_liability, DefaultMaxTestLiability))

\* C7: in fixed-stake mode with max_live_liability configured, for every
\* odds > 1.0 the result is 0 or a stake with (odds - 1) * stake <= max_live_liability.
C7_LiveLiabilityHardCap ==
  (szPc = "done" /\ ~LiabilityMode(SET) /\ SET.max_live_liability # NoneV /\ OddsUsable(szOdds))
    => (szStake = 0 \/ LiabilityWithin(szOdds, szStake, SET.max_live_liability))

\* C9: the output of compute_stake_for_liability is never negative and is a
\* multiple of 0.01 on every return path.
C9_NonNegativeTwoDecimals ==
  szPc = "done" => (szStake >= 0 /\ szStake % 10 = 0)

\* a configured stake floor with three decimals (2.004) was returned as 2.0
C9_Witness ==
  /\ szPc = "done"
  /\ SET.min_back_stake = 2004
  /\ szStake = 2000

\* the stake round2(min(max(max_test_liability / (odds - 1), min_back_stake),
\* test_stake_cap)), worked out by cross-multiplication
FloorThenCap(odds, S) ==
  LET mtl == Get(S.max_test_liability, DefaultMaxTestLiability)
      mbs == Get(S.min_back_stake, DefaultMinBackStake)
      cap == Get(S.test_stake_cap, mbs)
      belowFloor == 100 * mtl < mbs * (odds - 100)
      aboveCap == IF belowFloor THEN mbs > cap ELSE 100 * mtl > cap * (odds - 100)
  IN  IF aboveCap THEN Round2(Frac(cap, 1))
      ELSE IF belowFloor THEN Round2(Frac(mbs, 1))
      ELSE Round2(Frac(100 * mtl, odds - 100))

\* a liability-mode call on usable odds has returned
LiabilityCallDone == szPc = "done" /\ LiabilityMode(SET) /\ OddsUsable(szOdds)

\* the two worked examples: odds 1.05 with cap 5.0 gives 5.0; odds 2.0 with
\* max_test_liability 1.0 and min_back_stake 2.0 gives 2.0
StakeExamples ==
  /\ (szOdds = 105 /\ SET.max_test_liability = NoneV /\ SET.min_back_stake = NoneV
        /\ SET.test_stake_cap = 5000) => szStake = 5000
  /\ (szOdds = 200 /\ SET.max_test_liability = NoneV /\ SET.min_back_stake = NoneV
        /\ SET.test_stake_cap = NoneV) => szStake = 2000

C20_NonzeroStakeAtLeastMinimum ==
  (szPc = "done" /\ szStake # 0) => szStake >= Get(SET.min_back_stake, DefaultMinBackStake)

====
